---- MODULE Spec2Model ----
(***************************************************************************)
(* A model of gui.py (DNSTunnelingGUI): the capture-process supervisor     *)
(* (start_capture / stop_capture / on_closing), the tail reader            *)
(* (load_captured_queries), the snapshot reader (load_suspicious_queries), *)
(* the analysis job (analyse) and the poll loop (start_monitoring).        *)
(*                                                                         *)
(* The foreground (Tk main loop) runs one handler at a time; the monitor   *)
(* thread only schedules load_captured_queries on it.  subprocess.call in  *)
(* analyse blocks the foreground, so analyse is two steps (launch, exit);  *)
(* every other handler is one step.  The child processes, the files they   *)
(* write and the presence of the collaborator files are the environment.   *)
(*                                                                         *)
(* A messagebox runs a nested event loop in which a scheduled poll may     *)
(* run.  Every handler writes the tail state before its messagebox or not  *)
(* at all, and a poll reads nothing of the supervisor, so such a poll is   *)
(* the same poll run after (or before) the handler: handlers are atomic.   *)
(* root.update() in analyse runs the scheduled polls and is modelled so.   *)
(* Appends to dns_log.csv are whole lines.  The inserts into the text      *)
(* widgets do not raise, except in SpecTick, where any statement of a      *)
(* poll may.  The hand-off of the monitor thread does not fail, except in  *)
(* SpecPoll; a thread that died would only schedule fewer polls.           *)
(***************************************************************************)
EXTENDS Integers, Sequences, FiniteSets, TLC

(* Bounds of the model. *)
MaxProcs == 2      \* capture children launched in one behaviour
MaxRows == 2       \* data rows appended to dns_log.csv
MaxPending == 1    \* load_captured_queries callbacks queued by root.after
MaxPred == 1       \* data rows of dns_predictions.csv written by an analysis run
MaxSnap == 2       \* data rows of a dns_predictions.csv found at startup

(* capture_process = None: no supervised handle. Handles are 1, 2, ... *)
None == 0

VARIABLES
    platform,            \* sys.platform: "posix" or "win32"
    capture_script,      \* capture.py exists
    model_file,          \* best_dns_model.pkl exists
    predict_script,      \* predict.py exists
    capture_process,     \* self.capture_process
    monitoring,          \* self.monitoring
    start_button,        \* start_button is packed (offered)
    stop_button,         \* stop_button is packed (offered)
    last_capture_count,  \* self.last_capture_count
    captured_text,       \* self.captured_text: [banner, rows]
    captured_status,     \* self.captured_status: 0 = "No queries captured yet", n = total
    suspicious_text,     \* self.suspicious_text
    suspicious_status,   \* self.suspicious_status
    log_exists,          \* dns_log.csv exists
    log_lines,           \* its lines: the header line, then the data rows
    pred_exists,         \* dns_predictions.csv exists
    pred_lines,          \* its lines: the header line, then the data rows
    pred_origin,         \* the analysis run that wrote it: "none", "job", "exit0", "failed"
    launched,            \* number of children Popen has created
    alive,               \* launched children still running
    tree,                \* children whose own subprocesses are running
    pending,             \* scheduled load_captured_queries callbacks
    analysis,            \* "idle", or "running" while subprocess.call blocks
    destroyed,           \* root.destroy() has run
    monitor,             \* the monitor thread: "running", or "dead" once monitor() raised
    last                 \* the last handler that returned, and what it reported

envVars == <<platform, capture_script, model_file, predict_script>>
supVars == <<capture_process, monitoring, start_button, stop_button>>
procVars == <<launched, alive, tree>>
tailVars == <<last_capture_count, captured_text, captured_status>>
snapVars == <<suspicious_text, suspicious_status>>
logVars == <<log_exists, log_lines>>
predVars == <<pred_exists, pred_lines, pred_origin>>
schedVars == <<pending, analysis, destroyed, monitor>>
progVars == <<supVars, procVars, tailVars, snapVars, logVars, predVars, schedVars, envVars>>
vars == <<progVars, last>>

(***************************************************************************)
(* Files                                                                   *)
(***************************************************************************)

(* csv.DictReader: the first line is the header, the rows are the rest. *)
DictReader(lines) == IF lines = <<>> THEN <<>> ELSE Tail(lines)

(* log_file.stat().st_size == 0 *)
StSizeZero(lines) == lines = <<>>

(* The prediction labels predict.py may write, as token sequences. *)
Labels == { <<"Benign">>, <<"Suspicious", "-", "tunneling">>, <<"RED_CIRCLE">> }

PredHeader == << <<"qname">>, <<"prediction">> >>

RECURSIVE SeqsUpTo(_, _)
SeqsUpTo(S, n) ==
    IF n = 0 THEN { <<>> }
    ELSE LET shorter == SeqsUpTo(S, n - 1)
         IN  shorter \cup { Append(s, x) : s \in { t \in shorter : Len(t) = n - 1 }, x \in S }

(* The complete prediction files: header, then up to MaxPred rows <<qname, label>>. *)
PredFiles ==
    { <<PredHeader>> \o [i \in 1..Len(ls) |-> << <<"q", ToString(i)>>, ls[i] >>] : ls \in SeqsUpTo(Labels, MaxPred) }

(* The prediction files a session may find: a file of no bytes, or the
   header and up to MaxSnap rows. *)
SnapFiles ==
    { <<>> } \cup
    { <<PredHeader>> \o [i \in 1..Len(ls) |-> << <<"q", ToString(i)>>, ls[i] >>] : ls \in SeqsUpTo(Labels, MaxSnap) }

Contains(label, tok) == \E i \in 1..Len(label) : label[i] = tok

(* A faulty variant of IsSuspicious: the symbol is not recognised. *)
IsSuspicious_text_only(row) == Contains(row[2], "Suspicious")

(* 'Suspicious' in prediction or the symbol in prediction (line 421) *)
IsSuspicious(row) == Contains(row[2], "Suspicious") \/ Contains(row[2], "RED_CIRCLE")

(***************************************************************************)
(* Tail reader                                                             *)
(***************************************************************************)

(* A faulty variant of NewRows: the slice forgotten, every row published again. *)
NewRows_unsliced(rows, count) == rows

(* new_rows = rows[self.last_capture_count:] *)
NewRows(rows, count) == SubSeq(rows, count + 1, Len(rows))

(* The body of load_captured_queries (lines 344-394), everything after the
   open inside one try whose except swallows.  readOk = FALSE: open or
   list(reader) raised.  failAt = 0: no insert raised; failAt = k > 0: the
   insert of the k-th new row raised (TclError), after the assignment of
   last_capture_count (line 359) and k - 1 inserts. *)
load_captured_queries_try(readOk, failAt) ==
    IF ~log_exists \/ ~readOk
    THEN UNCHANGED tailVars
    ELSE LET rows == DictReader(log_lines)
             new_rows == NewRows(rows, last_capture_count)
         IN  IF Len(rows) > last_capture_count
             THEN /\ last_capture_count' = Len(rows)
                  /\ IF failAt = 0
                     THEN /\ captured_text' = [captured_text EXCEPT !.rows = @ \o new_rows]
                          /\ captured_status' = Len(rows)
                     ELSE /\ captured_text' =
                                [captured_text EXCEPT !.rows = @ \o SubSeq(new_rows, 1, failAt - 1)]
                          /\ UNCHANGED captured_status
             ELSE /\ captured_status' = Len(rows)
                  /\ UNCHANGED <<last_capture_count, captured_text>>

(* load_captured_queries with a text widget whose insert does not raise;
   readOk = FALSE: open/read raised, swallowed *)
load_captured_queries(readOk) == load_captured_queries_try(readOk, 0)

(* The inserts that can raise in the current state: those of the new rows. *)
InsertInputs(readOk) ==
    IF log_exists /\ readOk
    THEN 0 .. Len(NewRows(DictReader(log_lines), last_capture_count))
    ELSE {0}

(***************************************************************************)
(* Snapshot reader                                                         *)
(***************************************************************************)

(* A faulty variant of NoAnalysisStatus: the status of a file with no rows. *)
NoAnalysisStatus_as_complete == [kind |-> "complete", total |-> 0, suspicious |-> 0]

(* suspicious_status when the file does not exist: "No analysis performed yet"
   (line 403) *)
NoAnalysisStatus == [kind |-> "not_performed", total |-> 0, suspicious |-> 0]

(* load_suspicious_queries; readOk = FALSE: open/parse raised *)
load_suspicious_queries(readOk) ==
    IF ~pred_exists
    THEN /\ suspicious_text' = [kind |-> "no_results", items |-> <<>>]
         /\ suspicious_status' = NoAnalysisStatus
    ELSE IF ~readOk
    THEN /\ suspicious_text' = [kind |-> "load_error", items |-> <<>>]
         /\ suspicious_status' = [kind |-> "load_error", total |-> 0, suspicious |-> 0]
    ELSE LET rows == DictReader(pred_lines)
             sus == SelectSeq(rows, IsSuspicious)
         IN  IF Len(sus) = 0
             THEN /\ suspicious_text' = [kind |-> "all_safe", items |-> <<>>]
                  /\ suspicious_status' =
                        [kind |-> "complete", total |-> Len(rows), suspicious |-> 0]
             ELSE /\ suspicious_text' = [kind |-> "list", items |-> sus]
                  /\ suspicious_status' =
                        [kind |-> "found", total |-> Len(rows), suspicious |-> Len(sus)]

(***************************************************************************)
(* Process supervisor                                                      *)
(***************************************************************************)

(* What the environment decides for one start_capture: Popen raises, or the
   child has exited when polled after the 0.5 s grace period, or is alive. *)
StartOutcomes == {"raise", "exited", "alive"}

(* A faulty variant of HandleAfterImmediateExit: the handle of the dead child kept. *)
HandleAfterImmediateExit_kept(pid) == pid

(* self.capture_process after the immediate-exit branch (line 266) *)
HandleAfterImmediateExit(pid) == None

(* A faulty variant of CaptureScriptExists: the existence test dropped. *)
CaptureScriptExists_unchecked == TRUE

(* capture_script.exists() (line 220) *)
CaptureScriptExists == capture_script

(* A faulty variant of TailAfterImmediateExit: the live view cleared and the
   cursor reset before the child is known to run. *)
TailAfterImmediateExit_reset ==
    /\ captured_text' = [banner |-> TRUE, rows |-> <<>>]
    /\ last_capture_count' = 0
    /\ UNCHANGED captured_status

(* The tail state when start_capture returns from its immediate-exit branch
   (line 267), before the reset of lines 274-276. *)
TailAfterImmediateExit == UNCHANGED tailVars

(* A faulty variant of CountAfterStart: the view cleared, the cursor kept. *)
CountAfterStart_kept == last_capture_count

(* self.last_capture_count = 0 (line 276), after the live view is cleared *)
CountAfterStart == 0

(* A faulty variant of StartOfferedAfterStart: the Start button left packed. *)
StartOfferedAfterStart_kept == TRUE

(* Whether Start is offered once the child runs: self.start_button.pack_forget()
   (line 270) *)
StartOfferedAfterStart == FALSE

(* start_capture has no guard on self.capture_process: it tests only that
   capture.py exists. *)
start_capture(out) ==
    IF ~CaptureScriptExists
    THEN /\ last' = [op |-> "start_capture", report |-> "CaptureScriptNotFound",
                     path |-> "missing", pid |-> None, was |-> capture_process]
         /\ UNCHANGED <<supVars, procVars, tailVars>>
    ELSE IF out = "raise"
    THEN /\ last' = [op |-> "start_capture", report |-> "FailedToStart",
                     path |-> "raise", pid |-> None, was |-> capture_process]
         /\ UNCHANGED <<supVars, procVars, tailVars>>
    ELSE LET pid == launched + 1
         IN  /\ launched < MaxProcs
             /\ launched' = pid
             /\ UNCHANGED tree
             /\ IF out = "exited"
                THEN /\ alive' = alive
                     /\ capture_process' = HandleAfterImmediateExit(pid)
                     /\ last' = [op |-> "start_capture", report |-> "ImmediateExit",
                                 path |-> "exited", pid |-> pid, was |-> capture_process]
                     /\ TailAfterImmediateExit
                     /\ UNCHANGED <<monitoring, start_button, stop_button>>
                ELSE /\ alive' = alive \cup {pid}
                     /\ capture_process' = pid
                     /\ start_button' = StartOfferedAfterStart
                     /\ stop_button' = TRUE
                     /\ monitoring' = TRUE
                     /\ captured_text' = [banner |-> TRUE, rows |-> <<>>]
                     /\ last_capture_count' = CountAfterStart
                     /\ UNCHANGED captured_status
                     /\ last' = [op |-> "start_capture", report |-> "CaptureStarted",
                                 path |-> "alive", pid |-> pid, was |-> capture_process]

(* What the environment decides for one stop_capture of a running child.
   posix: the child exits on SIGTERM within 3 s ("graceful") or not
   ("forced": kill, wait).  win32: taskkill /F /T kills the tree
   ("taskkill_ok"), or returns non-zero and kills nothing, its result being
   discarded ("taskkill_failed"), or cannot be run and raises, so that
   terminate() is tried: the child is ended by it, within 2 s or by the
   kill() that follows the timeout ("fallback_ok"), or terminate() itself
   raises ("fallback_raise"). *)
StopOutcomes(pf) ==
    IF pf = "win32"
    THEN {"taskkill_ok", "taskkill_failed", "fallback_ok", "fallback_raise"}
    ELSE {"graceful", "forced"}

(* The children running after the termination attempt on p. *)
AliveAfterStop(p, out) ==
    IF out \in {"taskkill_failed", "fallback_raise"} THEN alive ELSE alive \ {p}

(* The process trees running after it: only taskkill /T reaches the tree. *)
TreeAfterStop(p, out) ==
    IF out = "taskkill_ok" THEN tree \ {p} ELSE tree

(* A faulty variant of HandleAfterStop: the except branch does not reset the handle. *)
HandleAfterStop_kept_on_error(p, out) == IF out = "fallback_raise" THEN p ELSE None

(* self.capture_process when stop_capture returns (lines 322, 339) *)
HandleAfterStop(p, out) == None

(* A faulty variant of StopIsNoOp: the early return dropped. *)
StopIsNoOp_never == FALSE

(* if self.capture_process is None: return (line 290) *)
StopIsNoOp == capture_process = None

(* stop_capture *)
stop_capture(out) ==
    IF StopIsNoOp
    THEN /\ last' = [op |-> "stop_capture", report |-> "none",
                     path |-> "idle", pid |-> None, was |-> capture_process]
         /\ UNCHANGED <<supVars, procVars>>
    ELSE LET p == capture_process
             running == p \in alive
         IN  /\ alive' = IF running THEN AliveAfterStop(p, out) ELSE alive
             /\ tree' = IF running THEN TreeAfterStop(p, out) ELSE tree
             /\ UNCHANGED launched
             /\ capture_process' = HandleAfterStop(p, out)
             /\ monitoring' = FALSE
             /\ stop_button' = FALSE
             /\ start_button' = TRUE
             /\ last' = [op |-> "stop_capture",
                         report |-> IF running /\ out = "fallback_raise"
                                    THEN "FailedToStop" ELSE "CaptureStopped",
                         path |-> IF running THEN out ELSE "exited",
                         pid |-> p, was |-> capture_process]

(* A faulty variant of DestroyedAfterAsk: the window destroyed whatever the answer. *)
DestroyedAfterAsk_always(confirm) == TRUE

(* Whether on_closing, with a process supervised, destroys the window:
   root.destroy() is inside the if of askokcancel, after stop_capture()
   (lines 537-539). *)
DestroyedAfterAsk(confirm) == confirm

(* on_closing: confirm is the answer to "Stop it and quit?" *)
on_closing(confirm, out) ==
    IF capture_process # None
    THEN IF confirm
         THEN /\ stop_capture(out)
              /\ destroyed' = DestroyedAfterAsk(confirm)
         ELSE /\ last' = [op |-> "on_closing", report |-> "cancelled",
                          path |-> "cancel", pid |-> None, was |-> capture_process]
              /\ destroyed' = DestroyedAfterAsk(confirm)
              /\ UNCHANGED <<supVars, procVars>>
    ELSE /\ destroyed' = TRUE
         /\ last' = [op |-> "on_closing", report |-> "none",
                     path |-> "destroy", pid |-> None, was |-> capture_process]
         /\ UNCHANGED <<supVars, procVars>>

(***************************************************************************)
(* Analysis job                                                            *)
(***************************************************************************)

(* A faulty variant of AnalysePrecheck: the model artifact tested before the capture log. *)
AnalysePrecheck_model_first ==
    IF ~model_file THEN "ModelNotFound"
    ELSE IF ~log_exists \/ StSizeZero(log_lines) THEN "NoCaptureData"
    ELSE IF ~predict_script THEN "PredictScriptNotFound"
    ELSE "ok"

(* The precondition checks of analyse, in the code's order (lines 468-490):
   the error category reported, or "ok". *)
AnalysePrecheck ==
    IF ~log_exists \/ StSizeZero(log_lines) THEN "NoCaptureData"
    ELSE IF ~model_file THEN "ModelNotFound"
    ELSE IF ~predict_script THEN "PredictScriptNotFound"
    ELSE "ok"

(* analyse up to subprocess.call: the checks, the "Running analysis" text,
   root.update() (which runs the callbacks already scheduled), the launch.
   launch = "raise": subprocess.call raised. *)
analyse_begin(launch, readOk) ==
    IF AnalysePrecheck # "ok"
    THEN /\ last' = [op |-> "analyse", report |-> AnalysePrecheck,
                     path |-> "precheck", pid |-> None, was |-> capture_process]
         /\ UNCHANGED <<snapVars, tailVars, pending, analysis>>
    ELSE /\ suspicious_text' = [kind |-> "running", items |-> <<>>]
         /\ IF pending > 0
            THEN load_captured_queries(readOk) /\ pending' = 0
            ELSE UNCHANGED <<tailVars, pending>>
         /\ IF launch = "raise"
            THEN /\ suspicious_status' = [kind |-> "error", total |-> 0, suspicious |-> 0]
                 /\ last' = [op |-> "analyse", report |-> "AnalysisError",
                             path |-> "raise", pid |-> None, was |-> capture_process]
                 /\ UNCHANGED analysis
            ELSE /\ suspicious_status' = [kind |-> "analyzing", total |-> 0, suspicious |-> 0]
                 /\ analysis' = "running"
                 /\ UNCHANGED last

(* analyse after subprocess.call returned rc *)
analyse_end(rc, readOk) ==
    /\ analysis' = "idle"
    /\ IF rc = 0
       THEN /\ load_suspicious_queries(readOk)
            /\ last' = [op |-> "analyse", report |-> "AnalysisCompleted",
                        path |-> "exit0", pid |-> None, was |-> capture_process]
       ELSE /\ suspicious_status' = [kind |-> "failed", total |-> 0, suspicious |-> 0]
            /\ UNCHANGED suspicious_text
            /\ last' = [op |-> "analyse", report |-> "AnalysisFailed",
                        path |-> "exit1", pid |-> None, was |-> capture_process]

(* refresh_all *)
refresh_all(readLog, readPred) ==
    /\ load_captured_queries(readLog)
    /\ load_suspicious_queries(readPred)
    /\ last' = [op |-> "refresh_all", report |-> "none",
                path |-> IF ~log_exists THEN "absent"
                         ELSE IF readLog THEN "read" ELSE "swallowed",
                pid |-> None, was |-> capture_process]

(***************************************************************************)
(* The program: handlers on the foreground, the monitor thread             *)
(***************************************************************************)

(* The foreground can run a handler: it is not blocked in subprocess.call
   and the window exists. *)
FgFree == analysis = "idle" /\ ~destroyed

(* The program after __init__, whatever dns_predictions.csv is. *)
InitProgram ==
    /\ platform \in {"posix", "win32"}
    /\ capture_script \in BOOLEAN
    /\ model_file \in BOOLEAN
    /\ predict_script \in BOOLEAN
    /\ capture_process = None
    /\ monitoring = FALSE
    /\ start_button = TRUE
    /\ stop_button = FALSE
    /\ last_capture_count = 0
    /\ captured_text = [banner |-> FALSE, rows |-> <<>>]
    /\ captured_status = 0
    /\ suspicious_text = [kind |-> "empty", items |-> <<>>]
    /\ suspicious_status = [kind |-> "not_performed", total |-> 0, suspicious |-> 0]
    /\ log_exists = FALSE
    /\ log_lines = <<>>
    /\ launched = 0
    /\ alive = {}
    /\ tree = {}
    /\ pending = 0
    /\ analysis = "idle"
    /\ destroyed = FALSE
    /\ monitor = "running"
    /\ last = [op |-> "init", report |-> "none", path |-> "none", pid |-> None, was |-> None]

(* A first session: no analysis has been run, dns_predictions.csv is absent. *)
Init ==
    /\ InitProgram
    /\ pred_exists = FALSE
    /\ pred_lines = <<>>
    /\ pred_origin = "none"

(* A later session: dns_predictions.csv is absent or is any file left by an
   earlier one. *)
InitSnap ==
    /\ InitProgram
    /\ pred_origin = "none"
    /\ \/ pred_exists = FALSE /\ pred_lines = <<>>
       \/ pred_exists = TRUE /\ pred_lines \in SnapFiles

(* The outcomes to draw for a stop_capture in the current state: those of the
   platform when the supervised child is running, else one (it is not read). *)
StopInputs ==
    IF capture_process \in alive THEN StopOutcomes(platform) ELSE {"none"}

(* The read outcomes to draw for a file: a read can fail only if it exists. *)
ReadInputs(exists) == IF exists THEN BOOLEAN ELSE {TRUE}

(* The user presses Start Capture: possible while the button is packed. *)
ClickStart ==
    /\ FgFree
    /\ start_button
    /\ \E out \in StartOutcomes : start_capture(out)
    /\ UNCHANGED <<snapVars, logVars, predVars, schedVars, envVars>>

(* The user presses Stop Capture: possible while the button is packed. *)
ClickStop ==
    /\ FgFree
    /\ stop_button
    /\ \E out \in StopInputs : stop_capture(out)
    /\ UNCHANGED <<tailVars, snapVars, logVars, predVars, schedVars, envVars>>

(* start_capture called whatever the buttons show. *)
InvokeStart ==
    /\ FgFree
    /\ \E out \in StartOutcomes : start_capture(out)
    /\ UNCHANGED <<snapVars, logVars, predVars, schedVars, envVars>>

(* stop_capture called whatever the buttons show. *)
InvokeStop ==
    /\ FgFree
    /\ \E out \in StopInputs : stop_capture(out)
    /\ UNCHANGED <<tailVars, snapVars, logVars, predVars, schedVars, envVars>>

(* The run that wrote dns_predictions.csv, once the job in flight has exited
   with rc: a file the job wrote is the output of a run that exited 0 or of
   a failed run; a file it did not touch keeps its origin. *)
OriginAfterExit(rc) ==
    IF pred_origin = "job" THEN (IF rc = 0 THEN "exit0" ELSE "failed") ELSE pred_origin

ClickAnalyse ==
    /\ FgFree
    /\ \E launch \in (IF AnalysePrecheck = "ok" THEN {"ok", "raise"} ELSE {"ok"}),
          readOk \in ReadInputs(log_exists /\ pending > 0) :
             analyse_begin(launch, readOk)
    /\ UNCHANGED <<supVars, procVars, logVars, predVars, destroyed, monitor, envVars>>

AnalyseReturn ==
    /\ analysis = "running"
    /\ ~destroyed
    /\ \E rc \in {0, 1}, readOk \in BOOLEAN :
          /\ rc = 0 => pred_exists
          /\ rc = 1 => readOk
          /\ analyse_end(rc, readOk)
          /\ pred_origin' = OriginAfterExit(rc)
    /\ UNCHANGED <<supVars, procVars, tailVars, logVars, pred_exists, pred_lines,
                   pending, destroyed, monitor, envVars>>

ClickRefresh ==
    /\ FgFree
    /\ \E readLog \in ReadInputs(log_exists), readPred \in ReadInputs(pred_exists) :
          refresh_all(readLog, readPred)
    /\ UNCHANGED <<supVars, procVars, logVars, predVars, schedVars, envVars>>

(* What root.after does when called from the monitor thread: it schedules
   the callback ("ok"), or raises ("raise": RuntimeError when the main thread
   is not in its main loop or Tcl is not threaded, TclError once the
   application is gone). *)
HandoffOutcomes == {"ok", "raise"}

(* A faulty variant of monitor_tick: the thread calls load_captured_queries
   itself instead of scheduling it. *)
monitor_tick_direct(handoff) ==
    /\ load_captured_queries(handoff = "ok")
    /\ UNCHANGED <<pending, monitor>>

(* A faulty variant of MonitorCondition: polls scheduled only during a session. *)
MonitorCondition_session_only == monitoring

(* if self.monitoring or True (line 456) *)
MonitorCondition == monitoring \/ TRUE

(* One iteration of monitor(): the test of line 456,
   self.root.after(0, self.load_captured_queries), then sleep.  The thread
   touches nothing else.  The loop has no try: an exception of root.after
   leaves monitor() and the thread ends. *)
monitor_tick(handoff) ==
    IF ~MonitorCondition
    THEN UNCHANGED <<pending, monitor, tailVars>>
    ELSE IF handoff = "ok"
    THEN /\ pending' = pending + 1
         /\ UNCHANGED <<monitor, tailVars>>
    ELSE /\ monitor' = "dead"
         /\ UNCHANGED <<pending, tailVars>>

(* The monitor thread ticks while the main loop is dispatching: the hand-off
   succeeds. *)
MonitorTick ==
    /\ ~destroyed
    /\ monitor = "running"
    /\ pending < MaxPending
    /\ monitor_tick("ok")
    /\ UNCHANGED <<supVars, procVars, snapVars, logVars, predVars,
                   analysis, destroyed, envVars, last>>

(* The monitor thread ticks and the hand-off may fail. *)
MonitorTickAny ==
    /\ ~destroyed
    /\ monitor = "running"
    /\ \E handoff \in HandoffOutcomes :
          /\ handoff = "ok" => pending < MaxPending
          /\ monitor_tick(handoff)
    /\ UNCHANGED <<supVars, procVars, snapVars, logVars, predVars,
                   analysis, destroyed, envVars, last>>

(* The foreground runs a scheduled load_captured_queries. *)
RunPoll ==
    /\ FgFree
    /\ pending > 0
    /\ pending' = pending - 1
    /\ \E readOk \in ReadInputs(log_exists) :
          /\ load_captured_queries(readOk)
          /\ last' = [op |-> "load_captured_queries", report |-> "none",
                      path |-> IF ~log_exists THEN "absent"
                               ELSE IF readOk THEN "read" ELSE "swallowed",
                      pid |-> None, was |-> capture_process]
    /\ UNCHANGED <<supVars, procVars, snapVars, logVars, predVars, analysis, destroyed,
                   monitor, envVars>>

(* The foreground runs a scheduled load_captured_queries and any statement
   of its try may raise. *)
RunPollAny ==
    /\ FgFree
    /\ pending > 0
    /\ pending' = pending - 1
    /\ \E readOk \in ReadInputs(log_exists) :
          \E failAt \in InsertInputs(readOk) :
             /\ load_captured_queries_try(readOk, failAt)
             /\ last' = [op |-> "load_captured_queries", report |-> "none",
                         path |-> IF ~log_exists THEN "absent"
                                  ELSE IF ~readOk THEN "swallowed"
                                  ELSE IF failAt # 0 THEN "insert_raise" ELSE "read",
                         pid |-> None, was |-> capture_process]
    /\ UNCHANGED <<supVars, procVars, snapVars, logVars, predVars, analysis, destroyed,
                   monitor, envVars>>

CloseWindow ==
    /\ FgFree
    /\ \E confirm \in (IF capture_process # None THEN BOOLEAN ELSE {TRUE}),
          out \in StopInputs :
             /\ ~confirm => out = CHOOSE o \in StopInputs : TRUE
             /\ on_closing(confirm, out)
    /\ UNCHANGED <<tailVars, snapVars, logVars, predVars, pending, analysis, monitor, envVars>>

(***************************************************************************)
(* The environment: the capture producer, the children, the analysis job   *)
(* It is followed until the window is destroyed and the program ends.      *)
(***************************************************************************)

(* dns_log.csv is created, empty. *)
CreateLog ==
    /\ ~destroyed
    /\ ~log_exists
    /\ log_exists' = TRUE
    /\ log_lines' = <<>>
    /\ UNCHANGED <<supVars, procVars, tailVars, snapVars, predVars, schedVars, envVars, last>>

(* One line is appended: the header (line 0), then rows 1, 2, ... *)
AppendLine ==
    /\ ~destroyed
    /\ log_exists
    /\ Len(log_lines) <= MaxRows
    /\ log_lines' = Append(log_lines, Len(log_lines))
    /\ UNCHANGED <<log_exists, supVars, procVars, tailVars, snapVars, predVars,
                   schedVars, envVars, last>>

(* A running child exits on its own. *)
ChildExits ==
    /\ ~destroyed
    /\ \E p \in alive : alive' = alive \ {p}
    /\ UNCHANGED <<launched, tree, supVars, tailVars, snapVars, logVars, predVars,
                   schedVars, envVars, last>>

(* A running child starts a subprocess of its own. *)
ChildSpawns ==
    /\ ~destroyed
    /\ \E p \in alive \ tree : tree' = tree \cup {p}
    /\ UNCHANGED <<launched, alive, supVars, tailVars, snapVars, logVars, predVars,
                   schedVars, envVars, last>>

(* The subprocesses of a child exit. *)
TreeExits ==
    /\ ~destroyed
    /\ \E p \in tree : tree' = tree \ {p}
    /\ UNCHANGED <<launched, alive, supVars, tailVars, snapVars, logVars, predVars,
                   schedVars, envVars, last>>

(* The running analysis job rewrites dns_predictions.csv. *)
JobWrites ==
    /\ ~destroyed
    /\ analysis = "running"
    /\ \E f \in PredFiles :
          /\ ~(pred_exists /\ pred_lines = f)
          /\ pred_exists' = TRUE
          /\ pred_lines' = f
    /\ pred_origin' = "job"
    /\ UNCHANGED <<supVars, procVars, tailVars, snapVars, logVars, schedVars, envVars, last>>

Environment == CreateLog \/ AppendLine \/ ChildExits \/ ChildSpawns \/ TreeExits \/ JobWrites

(* The application: every handler is reached through the control bound to it. *)
Next ==
    \/ ClickStart
    \/ ClickStop
    \/ ClickAnalyse
    \/ AnalyseReturn
    \/ ClickRefresh
    \/ MonitorTick
    \/ RunPoll
    \/ CloseWindow
    \/ Environment

Spec == Init /\ [][Next]_vars

(* The supervisor's operations called in any order, as start() and stop()
   of the supervisor contract are. *)
NextOps ==
    \/ InvokeStart
    \/ InvokeStop
    \/ ClickAnalyse
    \/ AnalyseReturn
    \/ ClickRefresh
    \/ MonitorTick
    \/ RunPoll
    \/ CloseWindow
    \/ Environment

SpecOps == Init /\ [][NextOps]_vars

(* The tail reader alone: appends to the capture file and polls. *)
NextTail ==
    \/ CreateLog
    \/ AppendLine
    \/ MonitorTick
    \/ RunPoll
    \/ ClickRefresh

SpecTail == Init /\ [][NextTail]_vars

(* The snapshot reader alone: Refresh applied to every prediction file, the
   capture file growing meanwhile. *)
NextSnap ==
    \/ ClickRefresh
    \/ CreateLog
    \/ AppendLine

SpecSnap == InitSnap /\ [][NextSnap]_vars

(* The tail reader alone, with every error a tick can hit. *)
NextTick ==
    \/ CreateLog
    \/ AppendLine
    \/ MonitorTick
    \/ RunPollAny

SpecTick == Init /\ [][NextTick]_vars

(* A scheduled poll that read the capture file. *)
RunPollRead == RunPoll /\ last'.path = "read"

(* The poll loop with its failures: a tick whose hand-off raises, a poll
   whose read raises.  The thread, while it runs, keeps iterating (weak
   fairness), the foreground runs the scheduled callbacks and a read failure
   is transient: of the polls that are run again and again, some read the
   file (strong fairness). *)
NextPoll ==
    \/ CreateLog
    \/ AppendLine
    \/ MonitorTickAny
    \/ RunPoll

SpecPoll ==
    /\ Init
    /\ [][NextPoll]_vars
    /\ WF_vars(MonitorTickAny)
    /\ WF_vars(RunPoll)
    /\ SF_vars(RunPollRead)

(***************************************************************************)
(* Claims                                                                  *)
(***************************************************************************)

(* A foreground handler returns in this step. *)
HandlerReturns ==
    ClickStart \/ ClickStop \/ (ClickAnalyse /\ analysis' = "idle") \/ AnalyseReturn
        \/ ClickRefresh \/ RunPoll \/ CloseWindow

(* A step that runs load_captured_queries as a poll (poll loop or Refresh). *)
PollStep == RunPoll \/ ClickRefresh

(* C1 (SpecTail): appends to the capture file interleaved with polls: the
   rows published to the live view are always the first last_capture_count
   rows of the file, in file order and each once, and a poll that read the
   file leaves every row of the file published, however many were appended
   since the previous poll. *)
C1_MonotonicTail ==
    /\ [](captured_text.rows = SubSeq(DictReader(log_lines), 1, last_capture_count))
    /\ [][PollStep /\ last'.path = "read" =>
            /\ captured_text'.rows = DictReader(log_lines')
            /\ last_capture_count' = Len(DictReader(log_lines'))]_vars

(* C1 witness: after a scheduled poll that read the file, the view holds
   every row of a file of at least two rows. *)
C1_Witness ==
    /\ last.op = "load_captured_queries"
    /\ last.path = "read"
    /\ Len(DictReader(log_lines)) >= 2
    /\ captured_text.rows = DictReader(log_lines)

(* C2 (Spec): in every reachable state at most one launched capture child is
   alive, and while an analysis invocation is in flight no other can begin. *)
C2_SingleSession ==
    /\ Cardinality(alive) <= 1
    /\ (analysis = "running" => ~ENABLED ClickAnalyse)

(* C3 (SpecOps): start_capture invoked while a handle is supervised reports
   AlreadyRunning, launches no child and leaves the handle unchanged. *)
C3_AlreadyRunning ==
    [][InvokeStart /\ capture_process # None =>
            /\ last'.report = "AlreadyRunning"
            /\ launched' = launched
            /\ capture_process' = capture_process]_vars

(* C4 (Spec): when the launched child has exited at the poll after the grace
   period, start_capture reports ImmediateExit and the supervisor is Idle:
   no handle, Start offered, Stop not shown, monitoring not set, and the
   exited child is not running. *)
C4_ImmediateExit ==
    (last.op = "start_capture" /\ last.path = "exited") =>
        /\ last.report = "ImmediateExit"
        /\ capture_process = None
        /\ start_button
        /\ ~stop_button
        /\ ~monitoring
        /\ last.pid \notin alive

(* C4 witness: a start_capture whose child exited within the grace period. *)
C4_Witness == last.op = "start_capture" /\ last.path = "exited" /\ last.pid # None

(* C5 (SpecOps): stop_capture with no supervised handle reports nothing and
   changes no variable of the program, so any number of such calls in a row
   equals one. *)
C5_StopIdleNoOp ==
    [][InvokeStop /\ capture_process = None =>
            /\ last'.op = "stop_capture"
            /\ last'.report = "none"
            /\ UNCHANGED progVars]_vars

(* C5 witness: stop_capture has returned from the Idle state. *)
C5_Witness == last.op = "stop_capture" /\ last.path = "idle" /\ capture_process = None

(* C6 (Spec): whenever stop_capture has returned from a supervised handle, by
   whichever path, the supervisor is Idle: no handle, monitoring False, Start
   offered, Stop hidden; a termination error is reported and changes none of
   this. *)
C6_StopEndsIdle ==
    (last.op = "stop_capture" /\ last.path # "idle") =>
        /\ capture_process = None
        /\ ~monitoring
        /\ start_button
        /\ ~stop_button
        /\ (last.path = "fallback_raise" <=> last.report = "FailedToStop")

(* C6 witness: stop_capture has returned through its except branch. *)
C6_Witness ==
    last.op = "stop_capture" /\ last.path = "fallback_raise" /\ last.report = "FailedToStop"

(* The paths of stop_capture on which the child did not leave on a graceful
   request: the forced kill on posix, every path on win32. *)
UngracefulPaths ==
    {"forced", "taskkill_ok", "taskkill_failed", "fallback_ok", "fallback_raise"}

(* C7 (Spec): when stop_capture has returned from a running child that did
   not leave gracefully, neither the child nor the process tree it spawned
   is running, on posix and on win32. *)
C7_BoundedTermination ==
    (last.op = "stop_capture" /\ last.path \in UngracefulPaths) =>
        /\ last.pid \notin alive
        /\ last.pid \notin tree

(* C8 (Spec): after every handler that returns, the supervisor holds no dead
   handle and no launched child runs unsupervised. *)
C8_SupervisorConsistent ==
    [][HandlerReturns =>
            /\ capture_process' # None => capture_process' \in alive'
            /\ capture_process' = None => alive' = {}]_vars

(* C9 (Spec): analyse reports the first failing precondition in the order
   capture log, model artifact, analysis script; with the log absent or empty
   it reports NoCaptureData whatever the other two, and launches nothing. *)
C9_PrecheckOrder ==
    [][ClickAnalyse =>
            LET noData == ~log_exists \/ log_lines = <<>>
            IN  /\ noData => last'.report = "NoCaptureData" /\ analysis' = "idle"
                /\ (~noData /\ ~model_file) =>
                        last'.report = "ModelNotFound" /\ analysis' = "idle"
                /\ (~noData /\ model_file /\ ~predict_script) =>
                        last'.report = "PredictScriptNotFound" /\ analysis' = "idle"]_vars

(* C9 witness: analyse has reported NoCaptureData with the model artifact and
   the analysis script missing too. *)
C9_Witness ==
    /\ last.op = "analyse"
    /\ last.report = "NoCaptureData"
    /\ ~model_file
    /\ ~predict_script
    /\ analysis = "idle"

(* C10 (Spec): the analysis job is launched only with the capture log present
   and non-empty, the model artifact present and the analysis script present;
   a capture child only with the capture script present; otherwise the
   handler reports an error, creates no child and leaves the supervisor as it
   was. *)
C10_NoSpawnWhenMissing ==
    [][ LET ready == log_exists /\ log_lines # <<>> /\ model_file /\ predict_script
        IN  /\ (analysis = "idle" /\ analysis' = "running") => ready
            /\ (ClickAnalyse /\ last'.report = "AnalysisError") => ready
            /\ (ClickAnalyse /\ ~ready) =>
                    /\ last'.op = "analyse"
                    /\ last'.report \in {"NoCaptureData", "ModelNotFound", "PredictScriptNotFound"}
                    /\ analysis' = "idle"
                    /\ UNCHANGED <<supVars, procVars>>
            /\ launched' # launched => capture_script
            /\ (ClickStart /\ ~capture_script) =>
                    /\ last'.report = "CaptureScriptNotFound"
                    /\ UNCHANGED <<supVars, procVars>> ]_vars

(* C10 witness: start_capture has returned CaptureScriptNotFound with nothing
   launched. *)
C10_Witness ==
    /\ last.op = "start_capture"
    /\ last.report = "CaptureScriptNotFound"
    /\ ~capture_script
    /\ launched = 0
    /\ capture_process = None

(* The states of the suspicious-results view that show rows of the
   prediction file: the list of suspicious rows, or "all appear safe". *)
PopulatedKinds == {"list", "all_safe"}

(* C11 (Spec): analyse leaves the suspicious-results view as it was when the
   job exits non-zero, and no handler that shows the prediction file shows a
   file written by a run that exited non-zero. *)
C11_NoReadAfterFailure ==
    [][ /\ (AnalyseReturn /\ last'.report = "AnalysisFailed") => UNCHANGED suspicious_text
        /\ ((AnalyseReturn \/ ClickRefresh) /\ pred_origin' = "failed") =>
                suspicious_text'.kind \notin PopulatedKinds ]_vars

(* C12 (SpecPoll): the poll loop keeps ticking forever, whatever failed in a
   tick (the read of the file, the hand-off to the foreground), and every row
   appended to the capture file is eventually published. *)
C12_PollLiveness ==
    /\ []<><<pending' = pending + 1>>_pending
    /\ \A n \in 1..MaxRows :
          (Len(DictReader(log_lines)) >= n) ~> (Len(captured_text.rows) >= n)

(* A step that runs load_suspicious_queries: Refresh, or analyse after the
   job exited 0. *)
SnapshotStep == ClickRefresh \/ (AnalyseReturn /\ last'.report = "AnalysisCompleted")

(* The data rows of the prediction file whose label is one of the two
   positive labels: "Suspicious - tunneling" and the red symbol. *)
MarkedRows(lines) ==
    SelectSeq(DictReader(lines),
              LAMBDA row : row[2] \in { <<"Suspicious", "-", "tunneling">>, <<"RED_CIRCLE">> })

(* C13 (SpecSnap): the snapshot reader run with the prediction file absent
   yields "no analysis yet"; run on a file that was read and has no
   suspicious row it yields "complete" with total the number of rows and 0
   suspicious; a present file, whatever it contains (no bytes, the header
   only, any rows) and whether or not it could be read, never yields the
   "no analysis yet" result. *)
C13_AbsentVersusZero ==
    [][SnapshotStep =>
        /\ ~pred_exists =>
              /\ suspicious_status' = [kind |-> "not_performed", total |-> 0, suspicious |-> 0]
              /\ suspicious_text'.kind = "no_results"
        /\ (pred_exists /\ suspicious_status'.kind # "load_error"
                /\ MarkedRows(pred_lines) = <<>>) =>
              /\ suspicious_status' = [kind |-> "complete",
                                       total |-> Len(DictReader(pred_lines)),
                                       suspicious |-> 0]
              /\ suspicious_text'.kind = "all_safe"
        /\ pred_exists =>
              /\ suspicious_status'.kind # "not_performed"
              /\ suspicious_text'.kind # "no_results" ]_vars

(* C13 witness: Refresh has read a present prediction file of zero rows and
   shows "complete, 0 analyzed, 0 suspicious". *)
C13_Witness ==
    /\ last.op = "refresh_all"
    /\ pred_exists
    /\ DictReader(pred_lines) = <<>>
    /\ suspicious_status = [kind |-> "complete", total |-> 0, suspicious |-> 0]
    /\ suspicious_text.kind = "all_safe"

(* C14 (SpecSnap): for every prediction file that was read, total is the
   number of its data rows, suspicious is the number of rows labelled
   "Suspicious - tunneling" or with the red symbol, rows labelled "Benign"
   are not counted, and the rows listed are exactly the counted ones, in
   file order. *)
C14_Classification ==
    [][(SnapshotStep /\ pred_exists /\ suspicious_status'.kind # "load_error") =>
        /\ suspicious_status'.total = Len(DictReader(pred_lines))
        /\ suspicious_status'.suspicious = Len(MarkedRows(pred_lines))
        /\ suspicious_text'.items = MarkedRows(pred_lines)
        /\ suspicious_text'.kind = "list" <=> MarkedRows(pred_lines) # <<>> ]_vars

(* C14 witness: Refresh has read a file of two rows, the first labelled with
   the red symbol and the second Benign, and lists the first only. *)
C14_Witness ==
    /\ last.op = "refresh_all"
    /\ pred_exists
    /\ Len(DictReader(pred_lines)) = 2
    /\ DictReader(pred_lines)[1][2] = <<"RED_CIRCLE">>
    /\ DictReader(pred_lines)[2][2] = <<"Benign">>
    /\ suspicious_status = [kind |-> "found", total |-> 2, suspicious |-> 1]
    /\ suspicious_text.items = << DictReader(pred_lines)[1] >>

(* C15 (SpecTick): a poll that finds the capture file missing, or that hits
   an error (raised by the read or by anything after it), or that finds no
   more rows than last_capture_count, publishes no row and leaves
   last_capture_count as it was. *)
C15_UnproductivePollFrame ==
    [][(RunPollAny /\ (last'.path # "read"
                        \/ Len(DictReader(log_lines)) <= last_capture_count)) =>
            /\ last_capture_count' = last_capture_count
            /\ captured_text' = captured_text ]_vars

(* C16 (Spec): last_capture_count is never negative, and a step decreases it
   only if it is a start_capture that reports Capture Started, which sets it
   to 0: no poll (poll loop, Refresh, the update inside analyse), no
   start_capture that fails (script missing, launch raising, immediate
   exit), no stop_capture, on_closing or analyse decreases it. *)
C16_CursorMonotonic ==
    [][ /\ last_capture_count >= 0
        /\ last_capture_count' >= 0
        /\ last_capture_count' < last_capture_count =>
               /\ last'.op = "start_capture"
               /\ last'.report = "CaptureStarted"
               /\ last_capture_count' = 0 ]_vars

(* C16 witness: a start_capture that started a session has reset a cursor
   that stood at one row or more (the status line still shows the old total). *)
C16_Witness ==
    /\ last.op = "start_capture"
    /\ last.report = "CaptureStarted"
    /\ last_capture_count = 0
    /\ captured_status >= 1

(* C17 (Spec): a step of the monitor thread adds one scheduled callback and
   leaves last_capture_count, capture_process and the display as they were;
   the tail state, the supervisor state and the suspicious-results view
   change only in a step of the foreground: a handler begun while the
   foreground was free, or the return of the analyse that blocked it.  While
   subprocess.call blocks the foreground, no poll and no user action runs. *)
C17_ForegroundOnly ==
    [][ /\ pending' = pending + 1 =>
               UNCHANGED <<tailVars, snapVars, supVars, analysis, destroyed, last>>
        /\ (tailVars' # tailVars \/ supVars' # supVars) => FgFree
        /\ snapVars' # snapVars => (FgFree \/ (analysis = "running" /\ analysis' = "idle"))
        /\ (analysis = "running" /\ analysis' = "running") =>
               UNCHANGED <<tailVars, snapVars, supVars, last>> ]_vars

(* C17 witness: the monitor thread has scheduled a poll while the foreground
   is blocked in subprocess.call, and the rows appended meanwhile are still
   unread: the cursor is behind the file. *)
C17_Witness ==
    /\ analysis = "running"
    /\ pending > 0
    /\ Len(DictReader(log_lines)) > last_capture_count
    /\ captured_text.rows = SubSeq(DictReader(log_lines), 1, last_capture_count)

(* C18 (Spec): once the window is destroyed no capture process is
   supervised: the supervisor is Idle (no handle, monitoring False, Stop
   hidden); and when on_closing was cancelled the window is not destroyed
   and the process it found is still the supervised one. *)
C18_ShutdownOrdering ==
    /\ destroyed =>
          /\ capture_process = None
          /\ ~monitoring
          /\ ~stop_button
    /\ (last.op = "on_closing" /\ last.path = "cancel") =>
          /\ ~destroyed
          /\ capture_process # None
          /\ capture_process = last.was

(* C18 witness: on_closing found a process supervised, the user confirmed,
   stop_capture returned and the window is destroyed. *)
C18_Witness ==
    /\ destroyed
    /\ last.op = "stop_capture"
    /\ last.pid # None
    /\ capture_process = None

(* C19 (Spec): whether monitoring is True or False, the monitor thread can
   schedule a poll whenever the window exists (and the bound on scheduled
   callbacks allows); a poll that read the file with monitoring False
   publishes every row of it; and stop_capture, from the Stop control or
   from on_closing, leaves last_capture_count and the live view as they
   were. *)
C19_PollingIndependent ==
    /\ [](\A m \in BOOLEAN :
            (monitoring = m /\ ~destroyed /\ pending < MaxPending) =>
                ENABLED (MonitorTick /\ pending' = pending + 1))
    /\ [][(RunPoll /\ ~monitoring /\ last'.path = "read") =>
                /\ captured_text'.rows = DictReader(log_lines)
                /\ last_capture_count' = Len(DictReader(log_lines))]_vars
    /\ [][(ClickStop \/ CloseWindow) => UNCHANGED tailVars]_vars

(* C19 witness: a session was started and stopped, records were shown before
   the stop or appended after it, and with monitoring False a poll has read
   the file and every row of it is in the live view. *)
C19_Witness ==
    /\ ~monitoring
    /\ capture_process = None
    /\ captured_text.banner
    /\ last.op = "load_captured_queries"
    /\ last.path = "read"
    /\ Len(DictReader(log_lines)) >= 1
    /\ captured_text.rows = DictReader(log_lines)

(* C20 (Spec): in every reachable state the records in the live view are the
   first last_capture_count rows of the capture file, in file order, and the
   cursor is not beyond the file; when start_capture has just reported
   Capture Started the view holds the banner and no record and the cursor
   is 0. *)
C20_ViewCursorAgreement ==
    /\ last_capture_count <= Len(DictReader(log_lines))
    /\ Len(captured_text.rows) = last_capture_count
    /\ \A i \in 1..last_capture_count : captured_text.rows[i] = DictReader(log_lines)[i]
    /\ (last.op = "start_capture" /\ last.report = "CaptureStarted" /\ analysis = "idle") =>
          /\ captured_text = [banner |-> TRUE, rows |-> <<>>]
          /\ last_capture_count = 0

(* C20 witness: after a start_capture that cleared a view showing records, a
   poll has published the whole file again from row 0, behind the banner. *)
C20_Witness ==
    /\ capture_process # None
    /\ captured_text.banner
    /\ last.op = "load_captured_queries"
    /\ last.path = "read"
    /\ last_capture_count = Len(DictReader(log_lines))
    /\ last_capture_count >= 2
    /\ Len(captured_text.rows) = last_capture_count

(* C21 (Spec): in every state of the application, and so whenever
   start_capture or stop_capture has returned, Start is offered exactly when
   no handle is supervised, Stop exactly when one is, and monitoring is True
   exactly when one is; the user can trigger start_capture only with no
   handle supervised and stop_capture only with one. *)
C21_ControlStateAgreement ==
    /\ start_button <=> capture_process = None
    /\ stop_button <=> capture_process # None
    /\ monitoring <=> capture_process # None
    /\ ENABLED ClickStart => capture_process = None
    /\ ENABLED ClickStop => capture_process # None

(* C21 witness: start_capture has returned with a child supervised: Stop is
   offered, Start is not, monitoring is True. *)
C21_Witness ==
    /\ last.op = "start_capture"
    /\ last.report = "CaptureStarted"
    /\ capture_process = last.pid
    /\ capture_process # None
    /\ stop_button
    /\ ~start_button
    /\ monitoring

====
